---- MODULE Spec2Model ----
(***************************************************************************)
(* gongflow: server side of the ng-flow chunked upload protocol.           *)
(*                                                                         *)
(* The state is the storage root (its children, each an upload directory   *)
(* holding chunk files and possibly the combined file), the process-wide   *)
(* validation cache of checkDirectory, and a clock.  File and directory    *)
(* names are sequences of character codes, so that strconv.Itoa and the    *)
(* name order of ioutil.ReadDir are computed, not assumed.  File contents  *)
(* are sequences of bytes.                                                 *)
(***************************************************************************)
EXTENDS Naturals, Sequences, FiniteSets, TLC

VARIABLES
    dirs,                       \* the children of tempDir: name -> [mtime, files]
    alreadyCheckedDirectory,    \* gongflow.go:31
    lastCheckedDirectoryError,  \* gongflow.go:32
    now,                        \* time.Now()
    probe,                      \* history: the probe operations performed so far
    up,                         \* history: the upload in progress of each identifier
    ret,                        \* history: the last call and what it returned
    calls                       \* the ChunkUpload call each goroutine is in

vars == <<dirs, alreadyCheckedDirectory, lastCheckedDirectoryError, now, probe, up, ret,
          calls>>

----------------------------------------------------------------------------
(* Bounds of the model. *)

MaxChunks == 3          \* chunk indexes 1..MaxChunks of an upload
MaxPayload == 2         \* payload lengths 0..MaxPayload
MaxTotalSize == 3       \* declared total sizes 0..MaxTotalSize
MaxTime == 2            \* clock readings 0..MaxTime
MaxAge == 1             \* retention durations 0..MaxAge
BigChunks == 10         \* chunk indexes 1..BigChunks of the long upload
MaxCalls == 1           \* requests a goroutine serves, one after the other

----------------------------------------------------------------------------
(* Program constants. *)

StatusOK == 200
StatusNotAcceptable == 406
StatusInternalServerError == 500

nil == "nil"
ErrNoTempDir == "ErrNoTempDir"
ErrCantCreateDir == "ErrCantCreateDir"
ErrCantWriteFile == "ErrCantWriteFile"
ErrCantReadFile == "ErrCantReadFile"
ErrCantDelete == "ErrCantDelete"

\* The name of the probe directory (abbreviated to its first two characters,
\* "5d") and of the entry under it.
testName == <<53, 100>>
testChunk == <<52, 50>>
\* The probe content, one byte standing for the text.
testContent == <<42>>

----------------------------------------------------------------------------
(* Names, strconv.Itoa and the order of ioutil.ReadDir. *)

RECURSIVE Itoa(_)
Itoa(n) == IF n < 10 THEN <<48 + n>> ELSE Itoa(n \div 10) \o <<48 + (n % 10)>>

\* Byte-wise comparison of two names, as sort.Strings does in ioutil.ReadDir.
RECURSIVE LessName(_, _)
LessName(a, b) ==
    IF a = <<>> THEN b # <<>>
    ELSE IF b = <<>> THEN FALSE
    ELSE IF a[1] # b[1] THEN a[1] < b[1]
    ELSE LessName(Tail(a), Tail(b))

RECURSIVE SortNames(_)
SortNames(S) ==
    IF S = {} THEN <<>>
    ELSE LET m == CHOOSE x \in S : \A y \in S \ {x} : LessName(x, y)
         IN  <<m>> \o SortNames(S \ {m})

\* ioutil.ReadDir: the entries of a directory, sorted by name.
ReadDir(files) == SortNames(DOMAIN files)

Put(f, k, v) == [x \in (DOMAIN f) \cup {k} |-> IF x = k THEN v ELSE f[x]]
Drop(f, k) == [x \in (DOMAIN f) \ {k} |-> f[x]]
Empty == [x \in {} |-> <<>>]

----------------------------------------------------------------------------
(* Inputs. *)

Identifiers == {<<97>>, <<98>>}             \* "a", "b"
Filenames == {<<102>>, <<50>>}              \* "f", and "2": a chunk's name
ChunkNumbers == 1..MaxChunks
TotalSizes == 0..MaxTotalSize

\* The payload of chunk k: its bytes carry the chunk's index, so that the
\* order of concatenation shows in the combined file.
Payload(k, n) == [i \in 1..n |-> k]
PayloadLens == 0..MaxPayload

\* path.Join(tempDir, ...): a path is the sequence of its segments under
\* tempDir; "" is the empty sequence.
NoPath == <<>>

----------------------------------------------------------------------------
(* checkDirectory, gongflow.go:253-308. *)

\* What the filesystem does to the probe of the first call: "ok", or the step
\* that fails.  "noroot": tempDir is missing or no directory.  "deleteSome":
\* os.RemoveAll fails after it removed the probe file.
ProbeOutcomes == {"ok", "noroot", "mkdir", "write", "read", "mismatch", "delete", "deleteSome"}

\* The probe directory as a child of tempDir: testName/testChunk, holding the
\* bytes written to the probe file (none when the write failed).
ProbeDir(content) == [mtime |-> now, files |-> Put(Empty, testChunk, content)]

\* The result of a call that runs the probe, lines 258-307: the error
\* returned, the cache and the children of tempDir after it, and the probe
\* operations the call performed.
probeDirectory(po) ==
         CASE po = "noroot" ->
                [err |-> ErrNoTempDir, checked |-> TRUE, last |-> ErrNoTempDir,
                 dirs |-> dirs, ops |-> {"stat"}]
           [] po = "mkdir" ->
                [err |-> ErrCantCreateDir, checked |-> TRUE, last |-> ErrCantCreateDir,
                 dirs |-> dirs, ops |-> {"stat", "mkdir"}]
           [] po = "write" ->
                [err |-> ErrCantWriteFile, checked |-> TRUE, last |-> ErrCantWriteFile,
                 dirs |-> Put(dirs, testName, ProbeDir(<<>>)),
                 ops |-> {"stat", "mkdir", "write"}]
           [] po \in {"read", "mismatch"} ->
                [err |-> ErrCantReadFile, checked |-> TRUE, last |-> ErrCantReadFile,
                 dirs |-> Put(dirs, testName, ProbeDir(testContent)),
                 ops |-> {"stat", "mkdir", "write", "read"}]
           [] po = "delete" ->
                [err |-> ErrCantDelete, checked |-> TRUE, last |-> ErrCantDelete,
                 dirs |-> Put(dirs, testName, ProbeDir(testContent)),
                 ops |-> {"stat", "mkdir", "write", "read", "delete"}]
           [] po = "deleteSome" ->
                [err |-> ErrCantDelete, checked |-> TRUE, last |-> ErrCantDelete,
                 dirs |-> Put(dirs, testName, ProbeDir(<<>>)),
                 ops |-> {"stat", "mkdir", "write", "read", "delete"}]
           [] OTHER ->
                \* the probe tree is created and removed again; the cached
                \* error stays nil
                [err |-> nil, checked |-> TRUE, last |-> lastCheckedDirectoryError,
                 dirs |-> dirs, ops |-> {"stat", "mkdir", "write", "read", "delete"}]

\* A checkDirectory that does not consult alreadyCheckedDirectory.
checkDirectoryNoCache(po) ==
    probeDirectory(po)

\* The result of one call: the cached error once a call has been made, lines
\* 254-257, the probe otherwise.
checkDirectory(po) ==
    IF alreadyCheckedDirectory
    THEN [err |-> lastCheckedDirectoryError, checked |-> TRUE,
          last |-> lastCheckedDirectoryError, dirs |-> dirs, ops |-> {}]
    ELSE probeDirectory(po)

\* The history of probe operations after a call that performed ops: how often
\* each was performed, and how many calls of checkDirectory there were (counted
\* to 2: none, the first, later ones).
ProbeOps == {"stat", "mkdir", "write", "read", "delete"}
Probed(ops, err) ==
    [calls |-> IF probe.calls < 2 THEN probe.calls + 1 ELSE 2,
     first |-> IF probe.calls = 0 THEN ops ELSE probe.first,
     later |-> IF probe.calls = 0 THEN {} ELSE probe.later \cup ops,
     twice |-> probe.twice \cup (ops \cap (probe.first \cup probe.later)),
     firstErr |-> IF probe.calls = 0 THEN err ELSE probe.firstErr,
     same |-> probe.same /\ (probe.calls = 0 \/ err = probe.firstErr)]

----------------------------------------------------------------------------
(* buildPathChunks, gongflow.go:163-167: the upload directory is the child  *)
(* of tempDir named by the identifier, the chunk file is named by Itoa.     *)

buildPathChunks(id, k) == [filePath |-> <<id>>, chunkFile |-> <<id, Itoa(k)>>]

----------------------------------------------------------------------------
(* storeChunk, gongflow.go:231-249. *)

\* What the filesystem and the request do to a store: "ok", or the step that
\* fails.  "open": ioutil.WriteFile cannot open the file; "write": it fails
\* after writing the first w bytes to the truncated file.
StoreOutcomes == {"ok", "mkdir", "form", "read", "open", "write"}

\* os.MkdirAll of an upload directory.
MkdirAll(ds, id) ==
    IF id \in DOMAIN ds THEN ds ELSE Put(ds, id, [mtime |-> now, files |-> Empty])

\* A WriteFile that opens the file for appending instead of truncating it.
WriteFileAppend(ds, id, name, data) ==
    Put(ds, id, [mtime |-> IF name \in DOMAIN ds[id].files THEN ds[id].mtime ELSE now,
                 files |-> Put(ds[id].files, name,
                               IF name \in DOMAIN ds[id].files
                               THEN ds[id].files[name] \o data ELSE data)])

\* ioutil.WriteFile: creates the file or truncates it, then writes data.  A
\* new entry changes the directory's modification time, a rewrite does not.
WriteFile(ds, id, name, data) ==
    Put(ds, id, [mtime |-> IF name \in DOMAIN ds[id].files THEN ds[id].mtime ELSE now,
                 files |-> Put(ds[id].files, name, data)])

storeChunk(ds, id, k, data, so, w) ==
    CASE so = "mkdir" -> [err |-> "Bad directory", dirs |-> ds]
      [] so = "form" -> [err |-> "Can't access file field", dirs |-> MkdirAll(ds, id)]
      [] so = "read" -> [err |-> "Can't read file", dirs |-> MkdirAll(ds, id)]
      [] so = "open" -> [err |-> "Can't write file", dirs |-> MkdirAll(ds, id)]
      [] so = "write" ->
            [err |-> "Can't write file",
             dirs |-> WriteFile(MkdirAll(ds, id), id, buildPathChunks(id, k).chunkFile[2],
                                SubSeq(data, 1, w))]
      [] OTHER ->
            [err |-> nil,
             dirs |-> WriteFile(MkdirAll(ds, id), id, buildPathChunks(id, k).chunkFile[2],
                                data)]

----------------------------------------------------------------------------
(* allChunksUploaded, gongflow.go:210-228. *)

\* An allChunksUploaded whose loop stops before the last entry of the listing.
RECURSIVE SumSizesButLast(_, _)
SumSizesButLast(files, listing) ==
    IF Len(listing) <= 1 THEN 0
    ELSE Len(files[Head(listing)]) + SumSizesButLast(files, Tail(listing))

\* The loop of lines 217-223 over the listing: the sum of fi.Size().
RECURSIVE SumSizes(_, _)
SumSizes(files, listing) ==
    IF listing = <<>> THEN 0
    ELSE Len(files[Head(listing)]) + SumSizes(files, Tail(listing))

\* The files of an upload directory; a failed listing (the directory is
\* missing) is logged and leaves none.
FilesOf(ds, id) == IF id \in DOMAIN ds THEN ds[id].files ELSE Empty

\* An allChunksUploaded that counts the files instead of their bytes.
allChunksUploadedByCount(ds, id, total) ==
    Len(ReadDir(FilesOf(ds, id))) = total

allChunksUploaded(ds, id, total) ==
    SumSizes(FilesOf(ds, id), ReadDir(FilesOf(ds, id))) = total

----------------------------------------------------------------------------
(* combineChunks, gongflow.go:171-207. *)

\* The loop of lines 182-200: every listed entry but the combined file is
\* appended to the combined file and removed.
RECURSIVE combineLoop(_, _, _)
combineLoop(files, listing, fname) ==
    IF listing = <<>> THEN files
    ELSE IF Head(listing) # fname
    THEN combineLoop(Drop(Put(files, fname, files[fname] \o files[Head(listing)]),
                          Head(listing)),
                     Tail(listing), fname)
    ELSE combineLoop(files, Tail(listing), fname)

\* os.Create (line 173): a new empty file, or the existing one truncated.
Create(files, fname) == Put(files, fname, <<>>)

\* The directory after the loop; creating or removing an entry changes its
\* modification time.
Combined(ds, id, fname, files) ==
    [file |-> <<id, fname>>, err |-> nil,
     dirs |-> Put(ds, id, [mtime |-> IF DOMAIN files # DOMAIN ds[id].files
                                     THEN now ELSE ds[id].mtime,
                           files |-> files])]

combineFrom(ds, id, fname, created) ==
    Combined(ds, id, fname, combineLoop(created, ReadDir(created), fname))

combineChunks(ds, id, fname) ==
    combineFrom(ds, id, fname, Create(ds[id].files, fname))

----------------------------------------------------------------------------
(* ChunkUpload, gongflow.go:93-111: what a call returns and leaves behind,  *)
(* for the descriptor (id, k, total, fname), a payload of n bytes, and what *)
(* the filesystem does (po, so, w).                                         *)

uploadAfterStore(chk, st, id, total, fname) ==
    IF chk.err # nil
    THEN [path |-> NoPath, err |-> chk.err, dirs |-> chk.dirs, complete |-> FALSE,
          stored |-> FALSE, chk |-> chk]
    ELSE IF st.err # nil
    THEN [path |-> NoPath, err |-> "Unable to store chunk", dirs |-> st.dirs,
          complete |-> FALSE, stored |-> FALSE, chk |-> chk]
    ELSE IF allChunksUploaded(st.dirs, id, total)
    THEN [path |-> combineChunks(st.dirs, id, fname).file,
          err |-> combineChunks(st.dirs, id, fname).err,
          dirs |-> combineChunks(st.dirs, id, fname).dirs,
          complete |-> TRUE, stored |-> TRUE, chk |-> chk]
    ELSE [path |-> NoPath, err |-> nil, dirs |-> st.dirs, complete |-> FALSE,
          stored |-> TRUE, chk |-> chk]

\* A ChunkUpload that goes on after a failed checkDirectory.
uploadAfterCheckIgnoringErr(chk, id, k, total, fname, n, so, w) ==
    uploadAfterStore([chk EXCEPT !.err = nil],
                     storeChunk(chk.dirs, id, k, Payload(k, n), so, w),
                     id, total, fname)

\* A ChunkUpload whose combine lists the chunk files by modification time,
\* newest first: the chunk just stored comes first in the combined file.
uploadAfterCheckNewestFirst(chk, id, k, total, fname, n, so, w) ==
    LET real == uploadAfterStore(chk, storeChunk(chk.dirs, id, k, Payload(k, n), so, w),
                                 id, total, fname)
        others == combineChunks(storeChunk(chk.dirs, id, k, <<>>, "ok", 0).dirs,
                                id, fname).dirs[id].files[fname]
    IN  IF real.complete /\ fname # Itoa(k)
        THEN [real EXCEPT !.dirs = Put(real.dirs, id,
                                      [real.dirs[id] EXCEPT
                                          !.files = Put(@, fname, Payload(k, n) \o others)])]
        ELSE real

uploadAfterCheck(chk, id, k, total, fname, n, so, w) ==
    uploadAfterStore(chk, storeChunk(chk.dirs, id, k, Payload(k, n), so, w),
                     id, total, fname)

chunkUpload(id, k, total, fname, n, po, so, w) ==
    uploadAfterCheck(checkDirectory(po), id, k, total, fname, n, so, w)

----------------------------------------------------------------------------
(* ChunkStatus, gongflow.go:115-134, for the descriptor (id, k,             *)
(* totalChunks, chunkSize).                                                 *)

\* ioutil.ReadFile of the chunk file succeeds.
Readable(ds, id, name) == id \in DOMAIN ds /\ name \in DOMAIN ds[id].files

\* A ChunkStatus without the exception for the final chunk.
statusAfterCheckEveryChunk(chk, id, k, totalChunks, chunkSize, chunkFile) ==
    [code |-> IF chk.err # nil THEN StatusInternalServerError
              ELSE IF ~Readable(chk.dirs, id, chunkFile) THEN StatusNotAcceptable
              ELSE IF chunkSize # Len(chk.dirs[id].files[chunkFile])
              THEN StatusInternalServerError
              ELSE StatusOK,
     chk |-> chk]

statusAfterCheck(chk, id, k, totalChunks, chunkSize, chunkFile) ==
    [code |-> IF chk.err # nil THEN StatusInternalServerError
              ELSE IF ~Readable(chk.dirs, id, chunkFile) THEN StatusNotAcceptable
              ELSE IF k # totalChunks /\ chunkSize # Len(chk.dirs[id].files[chunkFile])
              THEN StatusInternalServerError
              ELSE StatusOK,
     chk |-> chk]

\* A ChunkStatus that creates the upload directory before it reads.
chunkStatusMkdir(id, k, totalChunks, chunkSize, po) ==
    statusAfterCheck([checkDirectory(po) EXCEPT !.dirs = MkdirAll(@, id)],
                     id, k, totalChunks, chunkSize,
                     buildPathChunks(id, k).chunkFile[2])

chunkStatus(id, k, totalChunks, chunkSize, po) ==
    statusAfterCheck(checkDirectory(po), id, k, totalChunks, chunkSize,
                     buildPathChunks(id, k).chunkFile[2])

----------------------------------------------------------------------------
(* ChunksCleanup, gongflow.go:138-160. *)

\* What the filesystem does to a sweep: "none", or the call that fails, at the
\* entry with index `at` of the listing.  "remove": os.RemoveAll fails and
\* removes nothing; "removeSome": it fails after removing the files of the
\* child, whose directory stays.
SweepFailures == {"none", "list", "stat", "remove", "removeSome"}

\* A sweep that also removes a child exactly as old as the duration.
ExpiredOrEqual(d, timeoutDur) == now - d.mtime >= timeoutDur

\* time.Now().Sub(finfo.ModTime()) > timeoutDur, line 152.
Expired(d, timeoutDur) == now - d.mtime > timeoutDur

\* A sweep that goes on with the next entry after a failed stat.
RECURSIVE sweepLoopContinuing(_, _, _, _, _, _)
sweepLoopContinuing(ds, listing, i, timeoutDur, fk, at) ==
    IF listing = <<>> THEN [err |-> nil, dirs |-> ds]
    ELSE IF fk = "stat" /\ at = i
    THEN [err |-> "stat",
          dirs |-> sweepLoopContinuing(ds, Tail(listing), i + 1, timeoutDur, fk, at).dirs]
    ELSE IF Expired(ds[Head(listing)], timeoutDur)
    THEN IF fk = "remove" /\ at = i THEN [err |-> "remove", dirs |-> ds]
         ELSE IF fk = "removeSome" /\ at = i
         THEN [err |-> "remove",
               dirs |-> Put(ds, Head(listing),
                            [mtime |-> IF ds[Head(listing)].files = Empty
                                       THEN ds[Head(listing)].mtime ELSE now,
                             files |-> Empty])]
         ELSE sweepLoopContinuing(Drop(ds, Head(listing)), Tail(listing), i + 1,
                                  timeoutDur, fk, at)
    ELSE sweepLoopContinuing(ds, Tail(listing), i + 1, timeoutDur, fk, at)

\* The loop of lines 143-158 from the i-th entry of the listing on.
RECURSIVE sweepLoop(_, _, _, _, _, _)
sweepLoop(ds, listing, i, timeoutDur, fk, at) ==
    IF listing = <<>> THEN [err |-> nil, dirs |-> ds]
    ELSE IF fk = "stat" /\ at = i THEN [err |-> "stat", dirs |-> ds]
    ELSE IF Expired(ds[Head(listing)], timeoutDur)
    THEN IF fk = "remove" /\ at = i THEN [err |-> "remove", dirs |-> ds]
         ELSE IF fk = "removeSome" /\ at = i
         THEN [err |-> "remove",
               dirs |-> Put(ds, Head(listing),
                            [mtime |-> IF ds[Head(listing)].files = Empty
                                       THEN ds[Head(listing)].mtime ELSE now,
                             files |-> Empty])]
         ELSE sweepLoop(Drop(ds, Head(listing)), Tail(listing), i + 1, timeoutDur, fk, at)
    ELSE sweepLoop(ds, Tail(listing), i + 1, timeoutDur, fk, at)

chunksCleanup(ds, timeoutDur, fk, at) ==
    IF fk = "list" THEN [err |-> "list", dirs |-> ds]
    ELSE sweepLoop(ds, ReadDir(ds), 1, timeoutDur, fk, at)

----------------------------------------------------------------------------
(* History of the uploads.  An upload of an identifier is "open" from its   *)
(* first chunk while every call so far was made with a validated root, was  *)
(* stored, carried the same TotalSize and Filename and a chunk index not    *)
(* sent before, with a positive size, the sizes not exceeding TotalSize.    *)
(* Anything else makes it "dirty"; it is "idle" while the identifier has no *)
(* directory.  path and err are what the last call of the upload returned.  *)

Idle == [st |-> "idle", total |-> 0, fname |-> <<>>, sizes |-> <<>>,
         path |-> NoPath, err |-> nil]
Dirty == [Idle EXCEPT !.st = "dirty"]

RECURSIVE SumOver(_, _)
SumOver(f, S) ==
    IF S = {} THEN 0
    ELSE LET x == CHOOSE y \in S : TRUE IN f[x] + SumOver(f, S \ {x})

\* The bytes sent so far.
Sent(u) == SumOver(u.sizes, DOMAIN u.sizes)

Uploaded(u, id, k, total, fname, n, r) ==
    IF /\ r.stored /\ n > 0 /\ Sent(u) + n <= total
       /\ \/ u.st = "idle" /\ id \notin DOMAIN dirs
          \/ /\ u.st = "open" /\ u.total = total /\ u.fname = fname
             /\ k \notin DOMAIN u.sizes /\ Sent(u) < total
    THEN [st |-> "open", total |-> total, fname |-> fname,
          sizes |-> Put(u.sizes, k, n), path |-> r.path, err |-> r.err]
    ELSE IF id \in DOMAIN r.dirs THEN Dirty ELSE Idle

\* After a sweep: an upload whose directory is gone is idle again, one whose
\* directory changed is dirty.
Swept(u, id, before, after) ==
    IF id \notin DOMAIN after THEN Idle
    ELSE IF id \in DOMAIN before /\ before[id] = after[id] THEN u
    ELSE Dirty

----------------------------------------------------------------------------
(* The calls as steps.  Each records itself in ret. *)

NoCall == [op |-> "none", path |-> NoPath, err |-> nil, code |-> 0,
           complete |-> FALSE, removed |-> 0, k |-> 0, resent |-> FALSE]

\* The call stores again, with the same payload, a chunk that is on disk.
Resent(id, k, n, r) ==
    /\ r.stored
    /\ Readable(dirs, id, Itoa(k))
    /\ dirs[id].files[Itoa(k)] = Payload(k, n)

Checked(chk) ==
    /\ alreadyCheckedDirectory' = chk.checked
    /\ lastCheckedDirectoryError' = chk.last
    /\ probe' = Probed(chk.ops, chk.err)

ChunkUpload(id, k, total, fname, n, po, so, w) ==
    \E r \in {chunkUpload(id, k, total, fname, n, po, so, w)} :
        /\ dirs' = r.dirs
        /\ Checked(r.chk)
        /\ up' = [up EXCEPT ![id] = IF r.chk.err # nil THEN @
                                    ELSE Uploaded(@, id, k, total, fname, n, r)]
        /\ ret' = [NoCall EXCEPT !.op = "ChunkUpload", !.path = r.path,
                                 !.err = r.err, !.complete = r.complete,
                                 !.k = IF r.stored THEN k ELSE 0,
                                 !.resent = Resent(id, k, n, r)]
        /\ UNCHANGED <<now, calls>>

ChunkStatus(id, k, totalChunks, chunkSize, po) ==
    \E r \in {chunkStatus(id, k, totalChunks, chunkSize, po)} :
        /\ dirs' = r.chk.dirs
        /\ Checked(r.chk)
        /\ ret' = [NoCall EXCEPT !.op = "ChunkStatus", !.code = r.code,
                                 !.err = r.chk.err]
        /\ UNCHANGED <<now, up, calls>>

ChunksCleanup(timeoutDur, fk, at) ==
    \E r \in {chunksCleanup(dirs, timeoutDur, fk, at)} :
        /\ dirs' = r.dirs
        /\ up' = [id \in DOMAIN up |-> Swept(up[id], id, dirs, r.dirs)]
        /\ ret' = [NoCall EXCEPT !.op = "ChunksCleanup", !.err = r.err,
                                 !.removed = Cardinality(DOMAIN dirs \ DOMAIN r.dirs)]
        /\ UNCHANGED <<alreadyCheckedDirectory, lastCheckedDirectoryError, now, probe,
                       calls>>

\* Time passes.
Tick ==
    /\ now < MaxTime
    /\ now' = now + 1
    /\ ret' = [NoCall EXCEPT !.op = "Tick"]
    /\ UNCHANGED <<dirs, alreadyCheckedDirectory, lastCheckedDirectoryError, probe, up,
                   calls>>

----------------------------------------------------------------------------
(* ChunkUpload as the goroutines of concurrent requests run it: one step    *)
(* for each access to the package variables and each filesystem call.  A    *)
(* goroutine's record holds the descriptor of its call, its position (pc),  *)
(* its local variables and what the call returned.  The combined file is    *)
(* written through the handle of os.Create, at the handle's own offset; a   *)
(* handle whose file was removed by another goroutine is detached: writes   *)
(* through it reach no name.  History: before and after are the upload      *)
(* directory when the call began and when it returned, overlap tells that   *)
(* another call for the same identifier was running during the call, prev   *)
(* is the chunk file before the store opened it.                            *)

Goroutines == {1, 2}

NotCalled ==
    [pc |-> "idle", id |-> <<>>, k |-> 0, n |-> 0, total |-> 0, fname |-> <<>>,
     cached |-> FALSE, listing |-> <<>>, sum |-> 0, off |-> 0, buf |-> <<>>,
     detached |-> FALSE, prev |-> {}, path |-> NoPath, err |-> nil,
     before |-> Empty, after |-> Empty, overlap |-> FALSE, made |-> 0]

Running(c) == c.pc \notin {"idle", "done", "panic"}

\* The child id of tempDir alone.
Only(ds, id) == [x \in DOMAIN ds \cap {id} |-> ds[x]]

\* The upload directory id with the files fs: a created or removed entry
\* changes its modification time.
SetFiles(ds, id, fs) ==
    Put(ds, id, [mtime |-> IF DOMAIN fs # DOMAIN ds[id].files THEN now ELSE ds[id].mtime,
                 files |-> fs])

\* A write that ignores the offset of the handle.
WriteAtStart(content, off, data) ==
    [i \in 1..(IF Len(content) > Len(data) THEN Len(content) ELSE Len(data)) |->
        IF i <= Len(data) THEN data[i] ELSE content[i]]

\* A write of data through a handle at offset off: bytes between the end of
\* the file and the offset read as zero.
WriteAt(content, off, data) ==
    [i \in 1..(IF Len(content) > off + Len(data) THEN Len(content) ELSE off + Len(data)) |->
        IF i > off /\ i <= off + Len(data) THEN data[i - off]
        ELSE IF i <= Len(content) THEN content[i] ELSE 0]

\* The name of the file a goroutine holds open: the chunk file between the
\* open and the write of ioutil.WriteFile, the combined file from os.Create
\* to cn.Close.
Handle(c) ==
    IF c.pc = "write" THEN Itoa(c.k)
    ELSE IF c.pc \in {"clist", "cread", "cwrite", "cremove"} THEN c.fname
    ELSE <<>>

\* The call returns (path, err), the children of tempDir being ds.
Return(c, path, err, ds) ==
    [c EXCEPT !.pc = "done", !.path = path, !.err = err, !.after = Only(ds, c.id),
              !.listing = <<>>, !.sum = 0, !.off = 0, !.buf = <<>>,
              !.detached = FALSE, !.prev = {}]

\* The nil pointer dereference of line 222 ends the goroutine's call.
Panic(c, ds) ==
    [Return(c, NoPath, nil, ds) EXCEPT !.pc = "panic"]

Step(g, c) ==
    /\ calls' = [calls EXCEPT ![g] = c]
    /\ UNCHANGED <<now, up, ret>>

\* A request arrives: line 93.
Begin(g, I, K, N, T, F) ==
    /\ calls[g].pc \in {"idle", "done"}
    /\ calls[g].made < MaxCalls
    /\ \E id \in I, k \in K, n \in N, total \in T, fname \in F :
          calls' = [h \in Goroutines |->
                      IF h = g
                      THEN [NotCalled EXCEPT
                              !.pc = "check", !.id = id, !.k = k, !.n = n,
                              !.total = total, !.fname = fname,
                              !.made = calls[g].made + 1,
                              !.before = Only(dirs, id),
                              !.overlap = \E o \in Goroutines \ {g} :
                                             Running(calls[o]) /\ calls[o].id = id]
                      ELSE IF Running(calls[h]) /\ calls[h].id = id
                      THEN [calls[h] EXCEPT !.overlap = TRUE]
                      ELSE calls[h]]
    /\ UNCHANGED <<dirs, alreadyCheckedDirectory, lastCheckedDirectoryError, now, probe,
                   up, ret>>

\* checkDirectory, line 254: the read of alreadyCheckedDirectory.
CheckFlag(g) ==
    /\ calls[g].pc = "check"
    /\ Step(g, [calls[g] EXCEPT !.pc = IF alreadyCheckedDirectory THEN "cached" ELSE "set"])
    /\ UNCHANGED <<dirs, alreadyCheckedDirectory, lastCheckedDirectoryError, probe>>

\* checkDirectory, line 255: the read of lastCheckedDirectoryError.
CheckCached(g) ==
    /\ calls[g].pc = "cached"
    /\ Step(g, IF lastCheckedDirectoryError = nil
               THEN [calls[g] EXCEPT !.pc = "mkdir", !.cached = TRUE]
               ELSE Return(calls[g], NoPath, lastCheckedDirectoryError, dirs))
    /\ probe' = Probed({}, lastCheckedDirectoryError)
    /\ UNCHANGED <<dirs, alreadyCheckedDirectory, lastCheckedDirectoryError>>

\* checkDirectory, line 258.
CheckSet(g) ==
    /\ calls[g].pc = "set"
    /\ alreadyCheckedDirectory' = TRUE
    /\ Step(g, [calls[g] EXCEPT !.pc = "probe"])
    /\ UNCHANGED <<dirs, lastCheckedDirectoryError, probe>>

\* checkDirectory, lines 260-307: the probe, with one of the outcomes PO.
CheckProbe(g, PO) ==
    /\ calls[g].pc = "probe"
    /\ \E po \in PO :
          \E r \in {probeDirectory(po)} :
              /\ dirs' = r.dirs
              /\ lastCheckedDirectoryError' = r.last
              /\ probe' = Probed(r.ops, r.err)
              /\ Step(g, IF r.err = nil
                         THEN [calls[g] EXCEPT !.pc = "mkdir"]
                         ELSE Return(calls[g], NoPath, r.err, r.dirs))
    /\ UNCHANGED alreadyCheckedDirectory

\* storeChunk, line 232: os.MkdirAll.
StoreMkdir(g) ==
    /\ calls[g].pc = "mkdir"
    /\ dirs' = MkdirAll(dirs, calls[g].id)
    /\ Step(g, [calls[g] EXCEPT !.pc = "open"])
    /\ UNCHANGED <<alreadyCheckedDirectory, lastCheckedDirectoryError, probe>>

\* storeChunk, line 244: ioutil.WriteFile opens the chunk file, creating or
\* truncating it.
StoreOpen(g) ==
    /\ calls[g].pc = "open"
    /\ \E c \in {calls[g]} :
          IF c.id \in DOMAIN dirs
          THEN /\ dirs' = SetFiles(dirs, c.id, Put(dirs[c.id].files, Itoa(c.k), <<>>))
               /\ Step(g, [c EXCEPT !.pc = "write",
                                    !.prev = IF Itoa(c.k) \in DOMAIN dirs[c.id].files
                                             THEN {dirs[c.id].files[Itoa(c.k)]} ELSE {}])
          ELSE /\ dirs' = dirs
               /\ Step(g, Return(c, NoPath, "Unable to store chunk", dirs))
    /\ UNCHANGED <<alreadyCheckedDirectory, lastCheckedDirectoryError, probe>>

\* storeChunk, line 244: ioutil.WriteFile writes the payload and closes.
StoreWrite(g) ==
    /\ calls[g].pc = "write"
    /\ \E c \in {calls[g]} :
          /\ dirs' = IF c.detached THEN dirs
                     ELSE SetFiles(dirs, c.id,
                                   Put(dirs[c.id].files, Itoa(c.k),
                                       WriteAt(dirs[c.id].files[Itoa(c.k)], 0,
                                               Payload(c.k, c.n))))
          /\ Step(g, [c EXCEPT !.pc = "list", !.detached = FALSE, !.prev = {}])
    /\ UNCHANGED <<alreadyCheckedDirectory, lastCheckedDirectoryError, probe>>

\* An allChunksUploaded that lists the files of every upload directory.
ListedOfAll(ds, id) ==
    SortNames(UNION {DOMAIN FilesOf(ds, x) : x \in DOMAIN ds \cap Identifiers})

\* The entries allChunksUploaded lists for the identifier id.
Listed(ds, id) == ReadDir(FilesOf(ds, id))

\* allChunksUploaded, line 212: ioutil.ReadDir of the upload directory.
UploadedList(g) ==
    /\ calls[g].pc = "list"
    /\ Step(g, [calls[g] EXCEPT !.pc = "stat", !.listing = Listed(dirs, calls[g].id),
                                !.sum = 0])
    /\ UNCHANGED <<dirs, alreadyCheckedDirectory, lastCheckedDirectoryError, probe>>

\* allChunksUploaded, lines 217-227: os.Stat of the next listed entry and
\* fi.Size() of its result, nil when the entry is gone; after the last one
\* the comparison with TotalSize.
UploadedStat(g) ==
    /\ calls[g].pc = "stat"
    /\ \E c \in {calls[g]} :
          Step(g, IF c.listing = <<>>
                  THEN IF c.sum = c.total
                       THEN [c EXCEPT !.pc = "create", !.sum = 0]
                       ELSE Return(c, NoPath, nil, dirs)
                  ELSE IF Head(c.listing) \in DOMAIN FilesOf(dirs, c.id)
                  THEN [c EXCEPT !.listing = Tail(c.listing),
                                 !.sum = c.sum + Len(dirs[c.id].files[Head(c.listing)])]
                  ELSE Panic(c, dirs))
    /\ UNCHANGED <<dirs, alreadyCheckedDirectory, lastCheckedDirectoryError, probe>>

\* combineChunks, line 173: os.Create.
CombineCreate(g) ==
    /\ calls[g].pc = "create"
    /\ \E c \in {calls[g]} :
          IF c.id \in DOMAIN dirs
          THEN /\ dirs' = SetFiles(dirs, c.id, Create(dirs[c.id].files, c.fname))
               /\ Step(g, [c EXCEPT !.pc = "clist", !.off = 0])
          ELSE /\ dirs' = dirs
               /\ Step(g, Return(c, NoPath, "create", dirs))
    /\ UNCHANGED <<alreadyCheckedDirectory, lastCheckedDirectoryError, probe>>

\* combineChunks, line 178: ioutil.ReadDir.
CombineList(g) ==
    /\ calls[g].pc = "clist"
    /\ Step(g, [calls[g] EXCEPT !.pc = "cread",
                                !.listing = ReadDir(FilesOf(dirs, calls[g].id))])
    /\ UNCHANGED <<dirs, alreadyCheckedDirectory, lastCheckedDirectoryError, probe>>

\* combineChunks, lines 182-190 and 202-206: the next listed entry is skipped
\* if it is the combined file and read if not; after the last one the file
\* is closed and its path returned.
CombineRead(g) ==
    /\ calls[g].pc = "cread"
    /\ \E c \in {calls[g]} :
          Step(g, IF c.listing = <<>>
                  THEN Return(c, <<c.id, c.fname>>, nil, dirs)
                  ELSE IF Head(c.listing) = c.fname
                  THEN [c EXCEPT !.listing = Tail(c.listing)]
                  ELSE IF Head(c.listing) \in DOMAIN FilesOf(dirs, c.id)
                  THEN [c EXCEPT !.pc = "cwrite",
                                 !.buf = dirs[c.id].files[Head(c.listing)]]
                  ELSE Return(c, NoPath, "read", dirs))
    /\ UNCHANGED <<dirs, alreadyCheckedDirectory, lastCheckedDirectoryError, probe>>

\* combineChunks, line 192: cn.Write.
CombineWrite(g) ==
    /\ calls[g].pc = "cwrite"
    /\ \E c \in {calls[g]} :
          /\ dirs' = IF c.detached \/ c.fname \notin DOMAIN FilesOf(dirs, c.id) THEN dirs
                     ELSE SetFiles(dirs, c.id,
                                   Put(dirs[c.id].files, c.fname,
                                       WriteAt(dirs[c.id].files[c.fname], c.off, c.buf)))
          /\ Step(g, [c EXCEPT !.pc = "cremove", !.off = c.off + Len(c.buf),
                               !.buf = <<>>])
    /\ UNCHANGED <<alreadyCheckedDirectory, lastCheckedDirectoryError, probe>>

\* combineChunks, line 196: os.Remove of the entry.  The handles other
\* goroutines hold on the removed file are detached.
CombineRemove(g) ==
    /\ calls[g].pc = "cremove"
    /\ \E c \in {calls[g]} :
          IF Head(c.listing) \in DOMAIN FilesOf(dirs, c.id)
          THEN /\ dirs' = SetFiles(dirs, c.id, Drop(dirs[c.id].files, Head(c.listing)))
               /\ calls' = [h \in Goroutines |->
                              IF h = g
                              THEN [c EXCEPT !.pc = "cread", !.listing = Tail(c.listing)]
                              ELSE IF /\ calls[h].id = c.id
                                      /\ Handle(calls[h]) = Head(c.listing)
                              THEN [calls[h] EXCEPT !.detached = TRUE]
                              ELSE calls[h]]
          ELSE /\ dirs' = dirs
               /\ calls' = [calls EXCEPT ![g] = Return(c, NoPath, "remove", dirs)]
    /\ UNCHANGED <<alreadyCheckedDirectory, lastCheckedDirectoryError, now, probe, up, ret>>

\* A step of a goroutine.
Steps(g, PO) ==
    \/ CheckFlag(g) \/ CheckCached(g) \/ CheckSet(g) \/ CheckProbe(g, PO)
    \/ StoreMkdir(g) \/ StoreOpen(g) \/ StoreWrite(g)
    \/ UploadedList(g) \/ UploadedStat(g)
    \/ CombineCreate(g) \/ CombineList(g) \/ CombineRead(g) \/ CombineWrite(g)
    \/ CombineRemove(g)

----------------------------------------------------------------------------
(* The specifications. *)

Init ==
    /\ dirs = Empty
    /\ alreadyCheckedDirectory = FALSE
    /\ lastCheckedDirectoryError = nil
    /\ now = 0
    /\ probe = [calls |-> 0, first |-> {}, later |-> {}, twice |-> {},
                firstErr |-> nil, same |-> TRUE]
    /\ up = [id \in Identifiers |-> Idle]
    /\ ret = NoCall
    /\ calls = [g \in Goroutines |-> NotCalled]

\* The probe outcome is an input of the call that runs the probe only.
Probes == IF alreadyCheckedDirectory THEN {"ok"} ELSE ProbeOutcomes

\* Uploads of the identifiers I, with chunk indexes K, payload lengths N,
\* declared totals T, file names F and store outcomes SO.  The declared total
\* and the file name are read only after a successful store (lines 103-104),
\* the payload only by a store that reaches the write.
Upload(I, K, N, T, F, SO) ==
    \E id \in I, k \in K, po \in Probes, so \in SO :
        \E n \in IF so \in {"ok", "write"} THEN N ELSE {0},
           total \in IF so = "ok" THEN T ELSE {0},
           fname \in IF so = "ok" THEN F ELSE {<<102>>} :
            \E w \in IF so = "write" THEN 0..n ELSE {0} :
                ChunkUpload(id, k, total, fname, n, po, so, w)

Status(I, K, TC, CS) ==
    \E id \in I, k \in K, totalChunks \in TC, chunkSize \in CS, po \in Probes :
        ChunkStatus(id, k, totalChunks, chunkSize, po)

Cleanup ==
    \E timeoutDur \in 0..MaxAge, fk \in SweepFailures :
        \E at \in IF fk \in {"stat", "remove", "removeSome"}
                  THEN 1..Cardinality(DOMAIN dirs) ELSE {0} :
            ChunksCleanup(timeoutDur, fk, at)

\* The whole system: two clients with short uploads, status queries, the
\* sweep and the clock.
Next ==
    \/ Upload(Identifiers, {1}, 0..1, {1}, {<<102>>}, StoreOutcomes)
    \/ Status(Identifiers, {1}, 1..2, {1})
    \/ Cleanup
    \/ Tick

Spec == Init /\ [][Next]_vars

\* One client, its upload in detail.
NextUpload ==
    \/ Upload({<<97>>}, ChunkNumbers, PayloadLens, TotalSizes, Filenames, StoreOutcomes)
    \/ Status({<<97>>}, ChunkNumbers, ChunkNumbers, 1..MaxPayload)

SpecUpload == Init /\ [][NextUpload]_vars

\* One client, an upload of BigChunks chunks of one byte.
NextLong == Upload({<<97>>}, 1..BigChunks, {1}, {BigChunks}, {<<102>>}, {"ok"})

SpecLong == Init /\ [][NextLong]_vars

\* One client that sends and sends again the first two chunks of an upload,
\* some of its stores failing in the write.
NextResend ==
    Upload({<<97>>}, 1..2, PayloadLens, TotalSizes, {<<102>>}, {"ok", "write"})

SpecResend == Init /\ [][NextResend]_vars

\* Two goroutines with concurrent uploads of one-byte chunks of files of one
\* or two bytes, on a root whose probe succeeds.
NextSteps ==
    \E g \in Goroutines :
        \/ Begin(g, Identifiers, 1..2, {1}, 1..2, {<<102>>})
        \/ Steps(g, {"ok"})

SpecSteps == Init /\ [][NextSteps]_vars

\* Two goroutines whose first requests arrive together, on a root whose
\* probe may fail.
NextRace ==
    \E g \in Goroutines :
        \/ Begin(g, {<<97>>}, {1}, {1}, {1}, {<<102>>})
        \/ Steps(g, ProbeOutcomes)

SpecRace == Init /\ [][NextRace]_vars

----------------------------------------------------------------------------
(* The claims. *)

\* The bytes of the files of an upload directory other than `name`, as a sum
\* over the set of its entries.
BytesExcept(ds, id, name) ==
    SumOver([f \in DOMAIN FilesOf(ds, id) |-> Len(FilesOf(ds, id)[f])],
            (DOMAIN FilesOf(ds, id)) \ {name})

\* C1: while an upload is open (validated root, one call per chunk, positive
\* sizes within TotalSize, every chunk stored), the last call of the upload
\* returned a nil error and, if the bytes sent reach TotalSize, the path
\* <Identifier>/<Filename> under the root, otherwise the empty path: no path
\* before the last missing chunk is stored.
C1_PathWhenLastChunkStored ==
    \A id \in DOMAIN up :
        up[id].st = "open" =>
            /\ up[id].err = nil
            /\ up[id].path = IF Sent(up[id]) = up[id].total
                             THEN <<id, up[id].fname>> ELSE NoPath

\* C1: an upload of three chunks got its path from its third call.
C1_Witness ==
    \E id \in DOMAIN up :
        /\ up[id].st = "open"
        /\ Cardinality(DOMAIN up[id].sizes) = 3
        /\ up[id].path = <<id, up[id].fname>>

\* C2: in every reachable state and for every descriptor and payload, the
\* completion check made after storing the chunk is true exactly if the bytes
\* of the other files of the upload directory plus the bytes of the new chunk
\* equal the declared TotalSize; and the check of the directory as it is is
\* true exactly if the bytes of its files equal TotalSize.
C2_CompleteIffBytesEqualTotal ==
    \A id \in Identifiers, total \in TotalSizes :
        /\ allChunksUploaded(dirs, id, total) <=> (BytesExcept(dirs, id, <<>>) = total)
        /\ \A k \in ChunkNumbers, n \in PayloadLens :
              allChunksUploaded(storeChunk(dirs, id, k, Payload(k, n), "ok", 0).dirs,
                                id, total)
              <=> (BytesExcept(dirs, id, Itoa(k)) + n = total)

\* C2: a call stored a chunk beside another file and found the upload
\* complete, and a different declared total would not have.
C2_Witness ==
    /\ ret.op = "ChunkUpload" /\ ret.complete
    /\ \E id \in DOMAIN up :
          /\ up[id].st = "open" /\ Cardinality(DOMAIN up[id].sizes) = 2
          /\ Sent(up[id]) = up[id].total
          /\ \E total \in TotalSizes : ~allChunksUploaded(dirs, id, total)

\* The payloads of the chunks sent, concatenated in ascending order of the
\* chunk index.
RECURSIVE InIndexOrder(_, _)
InIndexOrder(sizes, S) ==
    IF S = {} THEN <<>>
    ELSE LET j == CHOOSE x \in S : \A y \in S : x <= y
         IN  Payload(j, sizes[j]) \o InIndexOrder(sizes, S \ {j})

\* C3: when the last call of an open upload returned the path, the upload
\* directory holds exactly the combined file, of TotalSize bytes.
C3_CombinedFileHasTotalSize ==
    \A id \in DOMAIN up :
        up[id].st = "open" /\ up[id].path # NoPath =>
            /\ DOMAIN FilesOf(dirs, id) = {up[id].fname}
            /\ Len(FilesOf(dirs, id)[up[id].fname]) = up[id].total

\* C4: when the last call of an open upload returned the path, the combined
\* file is the payloads of the chunks in ascending order of the chunk index.
C4_CombinedInIndexOrder ==
    \A id \in DOMAIN up :
        up[id].st = "open" /\ up[id].path # NoPath =>
            /\ up[id].fname \in DOMAIN FilesOf(dirs, id)
            /\ FilesOf(dirs, id)[up[id].fname]
                 = InIndexOrder(up[id].sizes, DOMAIN up[id].sizes)

\* C5: after any number of calls of checkDirectory, the probe was run by the
\* first call and by no later call, no probe operation was performed twice,
\* a successful probe performed each operation, and every call returned what
\* the first call returned, which is what the cache holds.
C5_ProbeOnceSameResult ==
    probe.calls >= 1 =>
        /\ "stat" \in probe.first
        /\ probe.later = {}
        /\ probe.twice = {}
        /\ probe.firstErr = nil => probe.first = ProbeOps
        /\ probe.same
        /\ alreadyCheckedDirectory
        /\ lastCheckedDirectoryError = probe.firstErr

\* C5: a later call returned the first call's failure although the root has
\* changed since: the probe directory it left behind is gone.
C5_Witness ==
    /\ probe.calls = 2
    /\ probe.firstErr = ErrCantDelete
    /\ ret.op \in {"ChunkUpload", "ChunkStatus"}
    /\ ret.err = ErrCantDelete
    /\ testName \notin DOMAIN dirs

C7_SweepOnlyExpired ==
    \A timeoutDur \in 0..MaxAge, fk \in SweepFailures,
       at \in 0..Cardinality(DOMAIN dirs) :
        \A r \in {chunksCleanup(dirs, timeoutDur, fk, at)} :
            /\ DOMAIN r.dirs \subseteq DOMAIN dirs
            /\ \A c \in DOMAIN dirs :
                  \/ now - dirs[c].mtime > timeoutDur
                  \/ c \in DOMAIN r.dirs /\ r.dirs[c] = dirs[c]
            /\ r.err = nil =>
                  /\ \A c \in DOMAIN dirs :
                        now - dirs[c].mtime > timeoutDur => c \notin DOMAIN r.dirs
                  /\ \A fk2 \in SweepFailures, at2 \in 0..Cardinality(DOMAIN dirs) :
                        chunksCleanup(r.dirs, timeoutDur, fk2, at2).dirs = r.dirs

\* C7: a sweep returned nil, removed a child and left another, with its
\* files, in place.
C7_Witness ==
    /\ ret.op = "ChunksCleanup" /\ ret.err = nil /\ ret.removed >= 1
    /\ \E c \in DOMAIN dirs : dirs[c].files # Empty

\* C8: once checkDirectory has failed, every later ChunkUpload and
\* ChunkStatus fails with the cached error, returns no path or the code 500,
\* and changes neither the children of tempDir nor the cache.  ChunksCleanup
\* does not call checkDirectory: it still lists and removes.
C8_CachedFailureFailsUploadAndStatus ==
    [][(/\ alreadyCheckedDirectory
        /\ lastCheckedDirectoryError # nil
        /\ ret'.op \in {"ChunkUpload", "ChunkStatus"})
       => /\ ret'.err = lastCheckedDirectoryError
          /\ ret'.path = NoPath
          /\ ret'.op = "ChunkStatus" => ret'.code = StatusInternalServerError
          /\ UNCHANGED <<dirs, alreadyCheckedDirectory, lastCheckedDirectoryError>>]_vars

\* C8: an upload call made after a failed validation returned the cached
\* error.
C8_Witness ==
    /\ probe.calls = 2
    /\ lastCheckedDirectoryError = ErrCantCreateDir
    /\ ret.op = "ChunkUpload"
    /\ ret.err = ErrCantCreateDir
    /\ ret.path = NoPath

\* C8 as stated: once checkDirectory has failed, every later ChunkUpload,
\* ChunkStatus and ChunksCleanup fails with the cached error and changes no
\* child of tempDir.
C8_CachedFailureFailsEveryCall ==
    [][(/\ alreadyCheckedDirectory
        /\ lastCheckedDirectoryError # nil
        /\ ret'.op \in {"ChunkUpload", "ChunkStatus", "ChunksCleanup"})
       => /\ ret'.err = lastCheckedDirectoryError
          /\ dirs' = dirs]_vars

\* C9: a ChunkStatus made after the first call of checkDirectory changes
\* neither the children of tempDir nor the cache.  The call that runs the
\* probe writes and removes the probe files and sets the cache.
C9_StatusAfterFirstCheckWritesNothing ==
    [][(alreadyCheckedDirectory /\ ret'.op = "ChunkStatus")
       => UNCHANGED <<dirs, alreadyCheckedDirectory, lastCheckedDirectoryError>>]_vars

\* C9: a status call that did not run the probe found a stored chunk.
C9_Witness ==
    /\ ret.op = "ChunkStatus" /\ ret.code = StatusOK
    /\ probe.calls = 2
    /\ \E id \in DOMAIN dirs : dirs[id].files # Empty

\* C9 as stated: every ChunkStatus, the first call in the process included,
\* changes neither the children of tempDir nor the cache.
C9_StatusWritesNothing ==
    [][ret'.op = "ChunkStatus"
       => UNCHANGED <<dirs, alreadyCheckedDirectory, lastCheckedDirectoryError>>]_vars

\* C10: ChunkStatus returns 200, 404 or 500 and no other code.
C10_StatusCodeDocumented ==
    ret.op = "ChunkStatus" => ret.code \in {200, 404, 500}

\* The children of tempDir a failed sweep r of the listing L had processed
\* before the failing entry, and the failing entry and those after it.
Processed(L, fk, at) == IF fk = "list" THEN {} ELSE {L[i] : i \in 1..(at - 1)}
NotProcessed(L, fk, at) == {L[i] : i \in 1..Len(L)} \ Processed(L, fk, at)

\* What a sweep that stopped at a failure left behind, for the children ds
\* it started from and the result r of the sweep: the children before the
\* failing one are removed if expired and unchanged if not; the failing child
\* and those after it are unchanged, unless touchFailing allows the failing
\* child of a delete that failed part-way to have lost its files; and a later
\* sweep without failure removes what a sweep without failure would have
\* removed, if the failing child was not touched.
StoppedAtFirstError(ds, L, r, timeoutDur, fk, at, touchFailing) ==
    /\ \A c \in Processed(L, fk, at) :
          IF now - ds[c].mtime > timeoutDur
          THEN c \notin DOMAIN r.dirs
          ELSE c \in DOMAIN r.dirs /\ r.dirs[c] = ds[c]
    /\ \A c \in NotProcessed(L, fk, at) :
          /\ c \in DOMAIN r.dirs
          /\ \/ r.dirs[c] = ds[c]
             \/ /\ touchFailing /\ fk = "removeSome" /\ c = L[at]
                /\ r.dirs[c].files = Empty
    /\ DOMAIN r.dirs \subseteq DOMAIN ds
    /\ fk # "removeSome" =>
          chunksCleanup(r.dirs, timeoutDur, "none", 0)
            = chunksCleanup(ds, timeoutDur, "none", 0)

\* C14: in every reachable state, a sweep that fails returns the first error
\* and stops: the children listed before the failing one keep the outcome
\* they got, those after it are untouched, and the failing child is untouched
\* when the listing, the stat or the delete fails without effect; a delete
\* that fails part-way leaves the failing child in place without its files.
\* A later sweep re-evaluates the children that are left.
C14_SweepStopsAtFirstError ==
    \A timeoutDur \in 0..MaxAge, fk \in SweepFailures \ {"none"},
       at \in 0..Cardinality(DOMAIN dirs) :
        \A r \in {chunksCleanup(dirs, timeoutDur, fk, at)} :
            r.err # nil =>
                /\ r.err = IF fk = "removeSome" THEN "remove" ELSE fk
                /\ StoppedAtFirstError(dirs, ReadDir(dirs), r, timeoutDur, fk, at, TRUE)

\* C14: a sweep removed a child and then failed part-way in the delete of the
\* next one, which stays, without its files and modified now.
C14_Witness ==
    /\ ret.op = "ChunksCleanup" /\ ret.err = "remove" /\ ret.removed >= 1
    /\ \E c \in DOMAIN dirs : dirs[c].files = Empty /\ dirs[c].mtime = now /\ now > 0

\* C14 as stated: the failing child is left untouched by every failure.
C14_FailingChildUntouched ==
    \A timeoutDur \in 0..MaxAge, fk \in SweepFailures \ {"none"},
       at \in 0..Cardinality(DOMAIN dirs) :
        chunksCleanup(dirs, timeoutDur, fk, at).err # nil =>
            StoppedAtFirstError(dirs, ReadDir(dirs),
                                chunksCleanup(dirs, timeoutDur, fk, at),
                                timeoutDur, fk, at, FALSE)

\* A file name that is the name of no chunk file.
NoChunkName(fname) == \A k \in 1..BigChunks : Itoa(k) # fname

\* C16: once the last call of an upload has returned the path of the final
\* file, no ChunkUpload changes the content of that file or returns the path
\* again.
C16_FinalFileStable ==
    [][\A id \in DOMAIN up :
          (/\ up[id].st = "open" /\ up[id].path # NoPath
           /\ NoChunkName(up[id].fname)
           /\ ret'.op = "ChunkUpload")
          => /\ id \in DOMAIN dirs'
             /\ up[id].fname \in DOMAIN dirs'[id].files
             /\ dirs'[id].files[up[id].fname] = dirs[id].files[up[id].fname]
             /\ ret'.path # up[id].path]_vars

\* The result of a ChunkUpload made with a validated root on the children ds
\* of tempDir.
UploadOn(ds, id, k, total, fname, n, so, w) ==
    uploadAfterCheck([err |-> nil, checked |-> TRUE, last |-> nil, dirs |-> ds,
                      ops |-> {}],
                     id, k, total, fname, n, so, w)

\* The second of two calls with the same chunk leaves what the first left
\* and returns what it returned.
SameAsOnce(first, id, k, total, fname, n) ==
    \A second \in {UploadOn(first.dirs, id, k, total, fname, n, "ok", 0)} :
        /\ second.dirs = first.dirs
        /\ second.path = first.path
        /\ second.err = first.err

\* A call that stores the chunk after a call whose store failed leaves what
\* the single successful call once leaves.
SameAsSingle(once, failed, id, k, total, fname, n) ==
    /\ failed.err # nil
    /\ \A again \in {UploadOn(failed.dirs, id, k, total, fname, n, "ok", 0)} :
          /\ again.dirs = once.dirs
          /\ again.path = once.path
          /\ again.err = once.err

\* C17: in every reachable state with a usable root and for every descriptor
\* and payload, a ChunkUpload that leaves the upload incomplete, made a second
\* time with the same chunk, leaves the same directory and returns the same;
\* and a ChunkUpload whose store fails, followed by one that stores the same
\* chunk, leaves the same directory as the one successful call.
C17_ResendIsSafe ==
    lastCheckedDirectoryError = nil =>
        \A id \in Identifiers, k \in ChunkNumbers, n \in PayloadLens,
           total \in TotalSizes, fname \in Filenames :
            \A once \in {UploadOn(dirs, id, k, total, fname, n, "ok", 0)} :
                /\ ~once.complete => SameAsOnce(once, id, k, total, fname, n)
                /\ \A so \in StoreOutcomes \ {"ok"}, w \in 0..n :
                      \A failed \in {UploadOn(dirs, id, k, total, fname, n, so, w)} :
                          SameAsSingle(once, failed, id, k, total, fname, n)

\* C17: a chunk of two bytes that was on disk was sent again and stored, the
\* upload being incomplete before and after.
C17_Witness ==
    /\ ret.op = "ChunkUpload" /\ ret.resent /\ ret.err = nil /\ ret.path = NoPath
    /\ \E id \in DOMAIN dirs :
          /\ Itoa(ret.k) \in DOMAIN dirs[id].files
          /\ Len(dirs[id].files[Itoa(ret.k)]) = 2

\* The payloads of the chunks sent, concatenated in the order of the listing
\* of their file names.
RECURSIVE InListingOrder(_, _)
InListingOrder(sizes, listing) ==
    IF listing = <<>> THEN <<>>
    ELSE LET j == CHOOSE x \in DOMAIN sizes : Itoa(x) = Head(listing)
         IN  Payload(j, sizes[j]) \o InListingOrder(sizes, Tail(listing))

\* C18: when the last call of an open upload returned the path, the content
\* of the final file is determined by the set of chunks and the file name
\* alone, whatever the order in which the chunks arrived: it is their
\* payloads in the order of their file names, without the chunk whose file
\* has the name of the final file.
C18_ContentIndependentOfArrival ==
    \A id \in DOMAIN up :
        up[id].st = "open" /\ up[id].path # NoPath =>
            /\ up[id].fname \in DOMAIN FilesOf(dirs, id)
            /\ FilesOf(dirs, id)[up[id].fname]
                 = InListingOrder(up[id].sizes,
                                  SortNames({Itoa(j) : j \in DOMAIN up[id].sizes}
                                              \ {up[id].fname}))

\* C18: an upload of three chunks was completed by its first chunk, which
\* arrived last.
C18_Witness ==
    /\ ret.op = "ChunkUpload" /\ ret.k = 1 /\ ret.path # NoPath
    /\ \E id \in DOMAIN up :
          /\ up[id].st = "open" /\ up[id].path = ret.path
          /\ DOMAIN up[id].sizes = {1, 2, 3}
          /\ Len(FilesOf(dirs, id)[up[id].fname]) = 3

\* What the call of the record c returns and leaves in its upload directory
\* when it runs alone on the directory it found.
Alone(c) == UploadOn(c.before, c.id, c.k, c.total, c.fname, c.n, "ok", 0)

\* A call during which no other call for its identifier ran has not
\* panicked, and has returned and left what it does alone.
AsIfAlone ==
    \A g \in Goroutines :
        ~calls[g].overlap =>
            /\ calls[g].pc # "panic"
            /\ calls[g].pc = "done" =>
                  \A r \in {Alone(calls[g])} :
                      /\ calls[g].path = r.path
                      /\ calls[g].err = r.err
                      /\ calls[g].after = Only(r.dirs, calls[g].id)

\* A step that changes the upload directory of an identifier is the step of
\* a call for that identifier, and changes the record of no other call.
OwnDirectoryOnly ==
    \A id \in Identifiers :
        Only(dirs', id) # Only(dirs, id) =>
            \A g \in Goroutines : calls'[g] # calls[g] => calls[g].id = id

\* C11: with a usable root, however the steps of calls for different
\* identifiers interleave, each call returns and leaves in its upload
\* directory what it would running alone, and no step of a call changes the
\* directory of another identifier.
C11_DifferentIdentifiersDoNotInterfere ==
    []AsIfAlone /\ [][OwnDirectoryOnly]_vars

\* C11: a call that found the root validated by the probe of the other call
\* has combined its upload and returned while the other call, for another
\* identifier, is in the middle of its combine.
C11_Witness ==
    \E g, h \in Goroutines :
        /\ calls[g].pc = "done" /\ calls[g].cached /\ calls[g].path # NoPath
        /\ calls[h].pc = "cwrite" /\ ~calls[h].cached
        /\ calls[h].id # calls[g].id
        /\ ~calls[g].overlap

\* The call of the record c found neither its chunk nor a final file in the
\* upload directory.
FreshChunk(c) ==
    /\ c.fname \notin DOMAIN FilesOf(c.before, c.id)
    /\ Itoa(c.k) \notin DOMAIN FilesOf(c.before, c.id)

\* The call of the record c has returned the path of a final file that, at
\* the return, was missing, had not TotalSize bytes or lacked the bytes of the
\* chunk the call stored.
BrokenFinalFile(c) ==
    /\ c.pc = "done" /\ c.path # NoPath /\ c.err = nil
    /\ \/ c.fname \notin DOMAIN FilesOf(c.after, c.id)
       \/ Len(FilesOf(c.after, c.id)[c.fname]) # c.total
       \/ \A i \in DOMAIN FilesOf(c.after, c.id)[c.fname] :
             FilesOf(c.after, c.id)[c.fname][i] # c.k

\* C12: a call that stored a fresh chunk returns the path of a final file
\* that is short of TotalSize bytes or of the chunk's bytes only if another
\* call for the same identifier ran during it; the witness is such a call.
C12_BrokenOnlyByOverlap ==
    \A g \in Goroutines :
        FreshChunk(calls[g]) /\ BrokenFinalFile(calls[g]) => calls[g].overlap

\* C12: of two overlapping calls for one identifier that declare two bytes
\* and store one byte each, as chunks 1 and 2, one has returned the path of a
\* final file that is broken.
C12_Witness ==
    \E g, h \in Goroutines :
        /\ calls[g].id = calls[h].id /\ calls[g].overlap /\ calls[h].overlap
        /\ calls[g].k = 1 /\ calls[h].k = 2
        /\ calls[g].total = 2 /\ calls[h].total = 2
        /\ calls[g].before = Empty /\ calls[h].before = Empty
        /\ \/ BrokenFinalFile(calls[g])
           \/ BrokenFinalFile(calls[h])

\* C13: no call of ChunkUpload ends in a panic: allChunksUploaded returns a
\* boolean also when the stat of a listed entry fails.
C13_StatFailureIsNotFatal ==
    \A g \in Goroutines : calls[g].pc # "panic"

\* C15: the probe is not run twice, and no call has got nil from the cache
\* while the probe is running or after it has failed.
C15_ProbeOnceAlsoWhenCallsOverlap ==
    /\ probe.twice = {}
    /\ \A g \in Goroutines :
          calls[g].cached =>
              /\ lastCheckedDirectoryError = nil
              /\ \A h \in Goroutines : calls[h].pc # "probe"

\* C19: while a store has the chunk file open, the file holds the payload it
\* held before the store or the whole new payload.
C19_StoreReplacesAtomically ==
    \A g \in Goroutines :
        calls[g].pc = "write" /\ ~calls[g].detached =>
            dirs[calls[g].id].files[Itoa(calls[g].k)]
                \in calls[g].prev \cup {Payload(calls[g].k, calls[g].n)}

====
